---- MODULE Spec2Model ----
(***************************************************************************)
(* EnvHandler (azurelinuxagent/ga/env.py): the environment monitor of the  *)
(* Azure Linux agent.  A caller drives run() and stop(); run() performs    *)
(* the bootstrap and spawns a daemon thread executing monitor(), whose     *)
(* loop runs the firewall, SCSI, hostname, DHCP and archive steps and      *)
(* sleeps, until it reads stopped = True at the top of an iteration.       *)
(*                                                                         *)
(* Granularity: one action per statement of run()/stop() and one action    *)
(* per step of a monitor() iteration; entering stop() and its assignment   *)
(* stopped = True are one step.  External collaborators (osutil,           *)
(* dhcp_handler, archiver, conf, socket, clock) are inputs drawn with \E;  *)
(* their calls return, except osutil.get_dhcp_pid (caught by the handler)  *)
(* and osutil.set_hostname / publish_hostname (not caught: the exception   *)
(* ends the thread).  The calls made by the last step are recorded in ev.  *)
(*                                                                         *)
(* Specifications: Spec (one caller), FairSpec (Spec with fair scheduling  *)
(* of the loop thread), SpecTwoCallers (run() and stop() called from two   *)
(* threads), SpecEndpoint (Spec with a protocol accessor whose endpoint    *)
(* changes) and SpecArchive (the archive step on any last_archive value).  *)
(***************************************************************************)
EXTENDS Integers, Sequences, FiniteSets, TLC

\* ------------------------------------------------------------------ bounds
MaxRuns == 2        \* run() calls per behaviour (one Thread object each)
MaxPid == 3         \* process ids are 1..MaxPid
MaxPidLen == 2      \* longest pid list osutil.get_dhcp_pid() returns
MaxNow == 27        \* utcnow() ranges over 0..MaxNow (hours)
MaxLast == 3        \* a set last_archive ranges over 0..MaxLast (hours)

\* ------------------------------------------------------- program constants
ARCHIVE_INTERVAL == 24
NoThread == 0

None == "None"
Threads == 1..MaxRuns
Callers == {1, 2}   \* callers of run()/stop(); Spec lets caller 1 alone act
Pids == 1..MaxPid
Hostnames == {"host-a", "host-b"}
WIRESERVER == "168.63.129.16"
Endpoints == {WIRESERVER, "168.63.129.17"}
METADATA_SERVER_ENDPOINT == "169.254.169.254"
Times == 0..MaxNow

VARIABLES
    \* EnvHandler fields
    stopped, hostname, dhcp_id_list, server_thread, dhcp_warning_enabled,
    last_archive, has_reset_firewall_rules, protocol_util,
    \* configuration: conf.enable_firewall()
    enable_firewall,
    \* control state of the callers of run()/stop() and of the Thread objects
    callerPc, callerRet, joinTarget, threadPc, nruns,
    \* history: bootstrap steps finished by the current run() of a caller,
    \* guarded remove_firewall calls (total / since the last run() call),
    \* threads on which a stop() has returned, and the last step taken
    bootLog, resets, lifeResets, joined, ev,
    \* what get_protocol_util().get_protocol().get_endpoint() answers now, and
    \* the `protocol` local of each monitor() in progress
    current_endpoint, protocol,
    \* history: threads back at the loop test after an iteration (a thread
    \* not in it tests the flag for the first time), and what the last
    \* get_dhcp_client_pid() returned ("none" before the first)
    ticked, lastFetch

vars == <<stopped, hostname, dhcp_id_list, server_thread, dhcp_warning_enabled,
          last_archive, has_reset_firewall_rules, protocol_util, enable_firewall,
          callerPc, callerRet, joinTarget, threadPc, nruns,
          bootLog, resets, lifeResets, joined, ev,
          current_endpoint, protocol, ticked, lastFetch>>

fields == <<stopped, hostname, dhcp_id_list, server_thread, dhcp_warning_enabled,
            last_archive, has_reset_firewall_rules, protocol_util>>

\* ----------------------------------------------------------------- helpers
Range(s) == {s[i] : i \in 1..Len(s)}

Min(a, b) == IF a < b THEN a ELSE b

Count(calls, fn) == Cardinality({i \in 1..Len(calls) : calls[i][1] = fn})

RECURSIVE Insert(_, _)
Insert(x, s) ==
    IF s = <<>> THEN <<x>>
    ELSE IF x <= Head(s) THEN <<x>> \o s
    ELSE <<Head(s)>> \o Insert(x, Tail(s))

\* sorted(): ascending order of a pid list
RECURSIVE sorted(_)
sorted(s) == IF s = <<>> THEN <<>> ELSE Insert(Head(s), sorted(Tail(s)))

\* what osutil.get_dhcp_pid() can return: any list of distinct pids, in any order
RawFetches ==
    {s \in UNION {[1..n -> Pids] : n \in 0..MaxPidLen} :
        \A i, j \in 1..Len(s) : i # j => s[i] # s[j]}

\* ... or it raises
FetchOutcomes ==
    {[kind |-> "ok", raw |-> s] : s \in RawFetches} \cup {[kind |-> "fail", raw |-> <<>>]}

\* The record of the last step: who took it, the external calls it made (in
\* order, as <<function, argument>>), and the inputs it read.
NoEv ==
    [op |-> "none", who |-> 0, calls |-> <<>>,
     prev |-> <<>>, warnPrev |-> FALSE, someDead |-> FALSE,
     fetchKind |-> "none", fetched |-> <<>>, log |-> "none",
     now |-> <<>>, live |-> None, cached |-> None, outcome |-> "none",
     endpoint |-> None, conf |-> None, lastPrev |-> "none", ticked |-> FALSE,
     boot |-> <<>>, thread |-> NoThread]

Ev(op, who, calls) == [NoEv EXCEPT !.op = op, !.who = who, !.calls = calls]

Alive(t) == threadPc[t] \notin {"unstarted", "done", "failed"}

\* the next Thread object start() creates
NewThread == CHOOSE t \in Threads :
    threadPc[t] = "unstarted" /\ \A u \in Threads : u < t => threadPc[u] # "unstarted"

\* position after `pc` in a statement sequence, `last` after its end
After(order, pc, last) ==
    LET i == CHOOSE k \in 1..Len(order) : order[k] = pc
    IN IF i = Len(order) THEN last ELSE order[i + 1]

\* ------------------------------------------------------------ construction
\* EnvHandler.__init__
Init ==
    /\ stopped = TRUE
    /\ hostname = None
    /\ dhcp_id_list = <<>>
    /\ server_thread = NoThread
    /\ dhcp_warning_enabled = TRUE
    /\ last_archive = <<>>
    /\ has_reset_firewall_rules = FALSE
    /\ protocol_util = NoThread
    /\ enable_firewall \in BOOLEAN
    /\ callerPc = [c \in Callers |-> "idle"]
    /\ callerRet = [c \in Callers |-> "idle"]
    /\ joinTarget = [c \in Callers |-> NoThread]
    /\ threadPc = [t \in Threads |-> "unstarted"]
    /\ nruns = 0
    /\ bootLog = [c \in Callers |-> <<>>]
    /\ resets = 0
    /\ lifeResets = 0
    /\ joined = {}
    /\ ev = NoEv
    /\ current_endpoint = WIRESERVER
    /\ protocol = [t \in Threads |-> None]
    /\ ticked = {}
    /\ lastFetch = "none"

\* a finished bootstrap step of run(); `needed`/`done` tell whether the step's
\* external call was due and whether it was made
Boot(step, needed, done) == [step |-> step, needed |-> needed, done |-> done]

\* ------------------------------------------------- get_dhcp_client_pid()
get_dhcp_client_pid_AlwaysLogs(r, warn) ==
    LET pid == IF r.kind = "ok" THEN sorted(r.raw) ELSE <<>>
    IN [kind |-> r.kind, pid |-> pid,
        log |-> IF r.kind = "fail" THEN "error"
                ELSE (IF Len(pid) = 0 THEN "warn" ELSE "none"),
        warning |-> Len(pid) # 0]

\* r: what osutil.get_dhcp_pid() does; warn: dhcp_warning_enabled at the call.
\* Returns the pid list, the log line emitted and the new dhcp_warning_enabled.
get_dhcp_client_pid(r, warn) ==
    LET pid == IF r.kind = "ok" THEN sorted(r.raw) ELSE <<>>
    IN [kind |-> r.kind, pid |-> pid,
        log |-> IF r.kind = "fail"
                    THEN (IF warn THEN "error" ELSE "none")
                    ELSE (IF Len(pid) = 0 /\ warn THEN "warn" ELSE "none"),
        warning |-> Len(pid) # 0]

\* every result a call of get_dhcp_client_pid() can have (the results of all
\* the outcomes of osutil.get_dhcp_pid(); lists in different orders give one)
DhcpFetchesWarnOn == {get_dhcp_client_pid(r, TRUE) : r \in FetchOutcomes}

DhcpFetchesWarnOff == {get_dhcp_client_pid(r, FALSE) : r \in FetchOutcomes}

DhcpFetches(warn) == IF warn THEN DhcpFetchesWarnOn ELSE DhcpFetchesWarnOff

\* whether a fetched pid list is empty
FetchClass(pid) == IF Len(pid) = 0 THEN "empty" ELSE "nonempty"

\* -------------------------------------------------------------- protocol
\* get_protocol_util().get_protocol(): the protocol object, bound to the
\* endpoint the accessor answers at the time of the call (an object is
\* identified with its endpoint)
get_protocol == current_endpoint

\* protocol.get_endpoint(): the endpoint the object is bound to
get_endpoint(p) == p

\* the accessor starts to answer another endpoint
EndpointChanges ==
    /\ \E e \in Endpoints \ {current_endpoint} : current_endpoint' = e
    /\ UNCHANGED <<fields, enable_firewall, callerPc, callerRet, joinTarget,
                   threadPc, nruns, bootLog, resets, lifeResets, joined, ev,
                   protocol, ticked, lastFetch>>

\* --------------------------------------------------- set_firewall_rules()
NeedsHardReset_Always == TRUE

\* `if not self.has_reset_firewall_rules`
NeedsHardReset == ~has_reset_firewall_rules

\* the calls set_firewall_rules(endpoint) makes and the flag it leaves
set_firewall_rules(endpoint) ==
    LET reset == enable_firewall /\ NeedsHardReset
    IN [calls |->
            <<<<"remove_rules_files", "">>>>
            \o (IF enable_firewall
                   THEN (IF reset THEN <<<<"remove_firewall", endpoint>>>> ELSE <<>>)
                        \o <<<<"enable_firewall", endpoint>>, <<"add_periodic", "Firewall">>>>
                   ELSE <<>>),
        flag |-> IF reset THEN TRUE ELSE has_reset_firewall_rules]

FirewallEffect(r) ==
    /\ has_reset_firewall_rules' = r.flag
    /\ resets' = Min(2, resets + Count(r.calls, "remove_firewall"))
    /\ lifeResets' = Min(2, lifeResets + Count(r.calls, "remove_firewall"))

\* ------------------------------------------------------------------ stop()
\* stop() is called from the caller's top level: self.stopped = True
stop(c) ==
    /\ callerPc[c] = "idle"
    /\ stopped' = TRUE
    /\ callerPc' = [callerPc EXCEPT ![c] = "stop_read"]
    /\ callerRet' = [callerRet EXCEPT ![c] = "idle"]
    /\ ev' = Ev("stop_set", c, <<>>)
    /\ UNCHANGED <<hostname, dhcp_id_list, server_thread, dhcp_warning_enabled,
                   last_archive, has_reset_firewall_rules, protocol_util,
                   enable_firewall, joinTarget, threadPc, nruns,
                   bootLog, resets, lifeResets, joined>>
    /\ UNCHANGED <<ticked, lastFetch, current_endpoint, protocol>>

\* `if self.server_thread is not None`: stop() returns at once when it is None
stop_read(c) ==
    /\ callerPc[c] = "stop_read"
    /\ IF server_thread = NoThread
          THEN /\ callerPc' = [callerPc EXCEPT ![c] = callerRet[c]]
               /\ callerRet' = [callerRet EXCEPT ![c] = "idle"]
               /\ ev' = Ev("stop_return", c, <<>>)
               /\ UNCHANGED joinTarget
          ELSE /\ callerPc' = [callerPc EXCEPT ![c] = "stop_join"]
               /\ joinTarget' = [joinTarget EXCEPT ![c] = server_thread]
               /\ ev' = Ev("stop_read", c, <<>>)
               /\ UNCHANGED callerRet
    /\ UNCHANGED <<fields, enable_firewall, threadPc, nruns,
                   bootLog, resets, lifeResets, joined>>
    /\ UNCHANGED <<ticked, lastFetch, current_endpoint, protocol>>

JoinReturns_NoWait(t) == TRUE

\* Thread.join() returns when the thread is no longer alive
JoinReturns(t) == ~Alive(t)

\* self.server_thread.join(), then stop() returns
stop_join(c) ==
    /\ callerPc[c] = "stop_join"
    /\ JoinReturns(joinTarget[c])
    /\ callerPc' = [callerPc EXCEPT ![c] = callerRet[c]]
    /\ callerRet' = [callerRet EXCEPT ![c] = "idle"]
    /\ joinTarget' = [joinTarget EXCEPT ![c] = NoThread]
    /\ joined' = joined \cup {joinTarget[c]}
    /\ ev' = [Ev("stop_return", c, <<>>) EXCEPT !.thread = joinTarget[c]]
    /\ UNCHANGED <<fields, enable_firewall, threadPc, nruns,
                   bootLog, resets, lifeResets>>
    /\ UNCHANGED <<ticked, lastFetch, current_endpoint, protocol>>

\* ------------------------------------------------------------------- run()
RunMustStop_Never == FALSE

\* `if not self.stopped`
RunMustStop == ~stopped

RunOrder_StartBeforeFirewall ==
    <<"run_clear", "run_routes", "run_hostname", "run_dhcp", "run_mds", "run_start",
      "run_fw">>

\* the statements of run() after the test, in order
RunOrder ==
    <<"run_clear", "run_routes", "run_hostname", "run_dhcp", "run_mds", "run_fw",
      "run_start">>

RunGoto(c, pc) == callerPc' = [callerPc EXCEPT ![c] = After(RunOrder, pc, "idle")]

\* run() is called: `if not self.stopped: self.stop()`; the stop() it calls
\* sets self.stopped = True and goes on as stop() does
run(c) ==
    /\ callerPc[c] = "idle"
    /\ nruns < MaxRuns
    /\ nruns' = nruns + 1
    /\ bootLog' = [bootLog EXCEPT ![c] = <<>>]
    /\ lifeResets' = 0
    /\ IF RunMustStop
          THEN /\ stopped' = TRUE
               /\ callerPc' = [callerPc EXCEPT ![c] = "stop_read"]
               /\ callerRet' = [callerRet EXCEPT ![c] = RunOrder[1]]
               /\ ev' = Ev("run_stop_set", c, <<>>)
          ELSE /\ callerPc' = [callerPc EXCEPT ![c] = RunOrder[1]]
               /\ ev' = Ev("run", c, <<>>)
               /\ UNCHANGED <<stopped, callerRet>>
    /\ UNCHANGED <<hostname, dhcp_id_list, server_thread, dhcp_warning_enabled,
                   last_archive, has_reset_firewall_rules, protocol_util,
                   enable_firewall, joinTarget, threadPc, resets, joined>>
    /\ UNCHANGED <<ticked, lastFetch, current_endpoint, protocol>>

\* self.stopped = False
run_clear(c) ==
    /\ callerPc[c] = "run_clear"
    /\ stopped' = FALSE
    /\ RunGoto(c, "run_clear")
    /\ ev' = Ev("run_clear", c, <<>>)
    /\ UNCHANGED <<hostname, dhcp_id_list, server_thread, dhcp_warning_enabled,
                   last_archive, has_reset_firewall_rules, protocol_util,
                   enable_firewall, callerRet, joinTarget, threadPc, nruns,
                   bootLog, resets, lifeResets, joined>>
    /\ UNCHANGED <<ticked, lastFetch, current_endpoint, protocol>>

\* self.dhcp_handler.conf_routes()
run_routes(c) ==
    /\ callerPc[c] = "run_routes"
    /\ RunGoto(c, "run_routes")
    /\ bootLog' = [bootLog EXCEPT ![c] = Append(@, Boot("conf_routes", TRUE, TRUE))]
    /\ ev' = Ev("run_routes", c, <<<<"conf_routes", "">>>>)
    /\ UNCHANGED <<fields, enable_firewall, callerRet, joinTarget, threadPc, nruns,
                   resets, lifeResets, joined>>
    /\ UNCHANGED <<ticked, lastFetch, current_endpoint, protocol>>

\* self.hostname = self.osutil.get_hostname_record()
run_hostname(c) ==
    /\ callerPc[c] = "run_hostname"
    /\ \E h \in Hostnames :
          /\ hostname' = h
          /\ ev' = [Ev("run_hostname", c, <<<<"get_hostname_record", "">>>>)
                        EXCEPT !.live = h]
    /\ RunGoto(c, "run_hostname")
    /\ bootLog' = [bootLog EXCEPT ![c] = Append(@, Boot("hostname", TRUE, TRUE))]
    /\ UNCHANGED <<stopped, dhcp_id_list, server_thread, dhcp_warning_enabled,
                   last_archive, has_reset_firewall_rules, protocol_util,
                   enable_firewall, callerRet, joinTarget, threadPc, nruns,
                   resets, lifeResets, joined>>
    /\ UNCHANGED <<ticked, lastFetch, current_endpoint, protocol>>

\* self.dhcp_id_list = self.get_dhcp_client_pid()
run_dhcp(c) ==
    /\ callerPc[c] = "run_dhcp"
    /\ \E f \in DhcpFetches(dhcp_warning_enabled) :
          /\ dhcp_id_list' = f.pid
          /\ dhcp_warning_enabled' = f.warning
          /\ ev' = [Ev("run_dhcp", c, <<<<"get_dhcp_pid", "">>>>)
                        EXCEPT !.prev = dhcp_id_list,
                               !.warnPrev = dhcp_warning_enabled,
                               !.fetchKind = f.kind, !.fetched = f.pid,
                               !.log = f.log, !.lastPrev = lastFetch]
          /\ lastFetch' = FetchClass(f.pid)
    /\ RunGoto(c, "run_dhcp")
    /\ bootLog' = [bootLog EXCEPT ![c] = Append(@, Boot("dhcp", TRUE, TRUE))]
    /\ UNCHANGED <<stopped, hostname, server_thread, last_archive,
                   has_reset_firewall_rules, protocol_util,
                   enable_firewall, callerRet, joinTarget, threadPc, nruns,
                   resets, lifeResets, joined>>
    /\ UNCHANGED <<ticked, current_endpoint, protocol>>

\* `if conf.enable_firewall() and is_migrating_protocol(): remove_firewall(MDS)`
run_mds(c) ==
    /\ callerPc[c] = "run_mds"
    /\ \E migrating \in BOOLEAN :
          LET due == enable_firewall /\ migrating
          IN /\ bootLog' = [bootLog EXCEPT ![c] = Append(@, Boot("mds", due, due))]
             /\ ev' = Ev("run_mds", c,
                         IF due THEN <<<<"remove_firewall", METADATA_SERVER_ENDPOINT>>>>
                                ELSE <<>>)
    /\ RunGoto(c, "run_mds")
    /\ UNCHANGED <<fields, enable_firewall, callerRet, joinTarget, threadPc, nruns,
                   resets, lifeResets, joined>>
    /\ UNCHANGED <<ticked, lastFetch, current_endpoint, protocol>>

\* self.set_firewall_rules(get_protocol_util().get_protocol().get_endpoint())
run_fw(c) ==
    /\ callerPc[c] = "run_fw"
    /\ LET e == get_endpoint(get_protocol)
           r == set_firewall_rules(e)
       IN /\ FirewallEffect(r)
          /\ ev' = [Ev("run_fw", c, r.calls) EXCEPT !.endpoint = e]
    /\ RunGoto(c, "run_fw")
    /\ bootLog' = [bootLog EXCEPT ![c] = Append(@, Boot("firewall", TRUE, TRUE))]
    /\ UNCHANGED <<stopped, hostname, dhcp_id_list, server_thread,
                   dhcp_warning_enabled, last_archive, protocol_util,
                   enable_firewall, callerRet, joinTarget, threadPc, nruns, joined>>
    /\ UNCHANGED <<ticked, lastFetch, current_endpoint, protocol>>

\* self.start(): a new daemon Thread(target=self.monitor) is stored and started
start(c) ==
    /\ callerPc[c] = "run_start"
    /\ server_thread' = NewThread
    /\ threadPc' = [threadPc EXCEPT ![NewThread] = "init"]
    /\ RunGoto(c, "run_start")
    /\ ev' = [Ev("start", c, <<>>) EXCEPT !.boot = bootLog[c],
                                          !.thread = NewThread]
    /\ bootLog' = [bootLog EXCEPT ![c] = <<>>]
    /\ UNCHANGED <<stopped, hostname, dhcp_id_list, dhcp_warning_enabled,
                   last_archive, has_reset_firewall_rules, protocol_util,
                   enable_firewall, callerRet, joinTarget, nruns,
                   resets, lifeResets, joined>>
    /\ UNCHANGED <<ticked, lastFetch, current_endpoint, protocol>>

CallerStep(c) ==
    \/ run(c) \/ stop(c)
    \/ stop_read(c) \/ stop_join(c)
    \/ run_clear(c) \/ run_routes(c) \/ run_hostname(c) \/ run_dhcp(c)
    \/ run_mds(c) \/ run_fw(c) \/ start(c)

\* --------------------------------------------------------------- monitor()
TickOrder_ArchiveBeforeDhcp ==
    <<"fw", "scsi", "hostname", "archive", "dhcp", "sleep">>

\* the steps of one iteration of the loop, in order
TickOrder == <<"fw", "scsi", "hostname", "dhcp", "archive", "sleep">>

TickGoto(t, pc) == threadPc' = [threadPc EXCEPT ![t] = After(TickOrder, pc, "check")]

\* self.protocol_util = get_protocol_util(); protocol = ...get_protocol()
monitor_init(t) ==
    /\ threadPc[t] = "init"
    /\ protocol_util' = t
    /\ protocol' = [protocol EXCEPT ![t] = get_protocol]
    /\ threadPc' = [threadPc EXCEPT ![t] = "check"]
    /\ ev' = Ev("monitor_init", t, <<<<"get_protocol", "">>>>)
    /\ UNCHANGED <<stopped, hostname, dhcp_id_list, server_thread,
                   dhcp_warning_enabled, last_archive, has_reset_firewall_rules,
                   enable_firewall, callerPc, callerRet, joinTarget, nruns,
                   bootLog, resets, lifeResets, joined>>
    /\ UNCHANGED <<ticked, lastFetch, current_endpoint>>

\* monitor() is left (by return or by an exception): its locals are gone
Returned(t) == protocol' = [protocol EXCEPT ![t] = None]

LoopContinues_Forever == TRUE

\* `while not self.stopped`
LoopContinues == ~stopped

monitor_test(t) ==
    /\ threadPc[t] = "check"
    /\ threadPc' = [threadPc EXCEPT ![t] = IF LoopContinues THEN TickOrder[1] ELSE "done"]
    /\ ev' = [Ev(IF LoopContinues THEN "tick_begin" ELSE "monitor_exit", t, <<>>)
                 EXCEPT !.ticked = t \in ticked]
    /\ ticked' = ticked \ {t}
    /\ IF LoopContinues THEN UNCHANGED protocol ELSE Returned(t)
    /\ UNCHANGED <<fields, enable_firewall, callerPc, callerRet, joinTarget, nruns,
                   bootLog, resets, lifeResets, joined>>
    /\ UNCHANGED <<lastFetch, current_endpoint>>

TickEndpoint_ResolvedPerTick(t) == get_endpoint(get_protocol)

\* `protocol.get_endpoint()` on the local resolved before the loop
TickEndpoint(t) == get_endpoint(protocol[t])

\* self.set_firewall_rules(protocol.get_endpoint())
tick_firewall(t) ==
    /\ threadPc[t] = "fw"
    /\ LET e == TickEndpoint(t)
           r == set_firewall_rules(e)
       IN /\ FirewallEffect(r)
          /\ ev' = [Ev("tick_firewall", t, r.calls) EXCEPT !.endpoint = e]
    /\ TickGoto(t, "fw")
    /\ UNCHANGED <<stopped, hostname, dhcp_id_list, server_thread,
                   dhcp_warning_enabled, last_archive, protocol_util,
                   enable_firewall, callerPc, callerRet, joinTarget, nruns,
                   bootLog, joined>>
    /\ UNCHANGED <<ticked, lastFetch, current_endpoint, protocol>>

\* timeout = conf.get_root_device_scsi_timeout(); set it when not None
tick_scsi(t) ==
    /\ threadPc[t] = "scsi"
    /\ \E timeout \in {None, "300"} :
          ev' = [Ev("tick_scsi", t,
                    IF timeout # None THEN <<<<"set_scsi_disks_timeout", timeout>>>>
                                      ELSE <<>>)
                     EXCEPT !.conf = timeout]
    /\ TickGoto(t, "scsi")
    /\ UNCHANGED <<fields, enable_firewall, callerPc, callerRet, joinTarget, nruns,
                   bootLog, resets, lifeResets, joined>>
    /\ UNCHANGED <<ticked, lastFetch, current_endpoint, protocol>>

handle_hostname_update_Caught(curr, outcome) ==
    IF curr = hostname
       THEN [calls |-> <<>>, hostname |-> hostname, raised |-> FALSE]
    ELSE IF outcome = "set_hostname raises"
       THEN [calls |-> <<<<"set_hostname", curr>>>>,
             hostname |-> hostname, raised |-> FALSE]
    ELSE IF outcome = "publish_hostname raises"
       THEN [calls |-> <<<<"set_hostname", curr>>, <<"publish_hostname", curr>>>>,
             hostname |-> hostname, raised |-> FALSE]
    ELSE [calls |-> <<<<"set_hostname", curr>>, <<"publish_hostname", curr>>>>,
          hostname |-> curr, raised |-> FALSE]

handle_hostname_update_CacheNotUpdated(curr, outcome) ==
    IF curr = hostname
       THEN [calls |-> <<>>, hostname |-> hostname, raised |-> FALSE]
    ELSE IF outcome = "set_hostname raises"
       THEN [calls |-> <<<<"set_hostname", curr>>>>,
             hostname |-> hostname, raised |-> TRUE]
    ELSE IF outcome = "publish_hostname raises"
       THEN [calls |-> <<<<"set_hostname", curr>>, <<"publish_hostname", curr>>>>,
             hostname |-> hostname, raised |-> TRUE]
    ELSE [calls |-> <<<<"set_hostname", curr>>, <<"publish_hostname", curr>>>>,
          hostname |-> hostname, raised |-> FALSE]

\* handle_hostname_update(): curr is socket.gethostname(); outcome tells
\* whether osutil.set_hostname / publish_hostname return or raise
handle_hostname_update(curr, outcome) ==
    IF curr = hostname
       THEN [calls |-> <<>>, hostname |-> hostname, raised |-> FALSE]
    ELSE IF outcome = "set_hostname raises"
       THEN [calls |-> <<<<"set_hostname", curr>>>>,
             hostname |-> hostname, raised |-> TRUE]
    ELSE IF outcome = "publish_hostname raises"
       THEN [calls |-> <<<<"set_hostname", curr>>, <<"publish_hostname", curr>>>>,
             hostname |-> hostname, raised |-> TRUE]
    ELSE [calls |-> <<<<"set_hostname", curr>>, <<"publish_hostname", curr>>>>,
          hostname |-> curr, raised |-> FALSE]

\* `if conf.get_monitor_hostname(): self.handle_hostname_update()`; an
\* exception leaves monitor() and ends the thread
tick_hostname(t) ==
    /\ threadPc[t] = "hostname"
    /\ \E monitor_hostname \in BOOLEAN :
          IF monitor_hostname
             THEN \E curr \in Hostnames,
                     outcome \in {"returns", "set_hostname raises",
                                  "publish_hostname raises"} :
                    LET r == handle_hostname_update(curr, outcome)
                    IN /\ outcome # "returns" => curr # hostname
                       /\ hostname' = r.hostname
                       /\ IF r.raised
                             THEN /\ threadPc' = [threadPc EXCEPT ![t] = "failed"]
                                  /\ Returned(t)
                             ELSE /\ TickGoto(t, "hostname")
                                  /\ UNCHANGED protocol
                       /\ ev' = [Ev(IF r.raised THEN "tick_hostname_raised"
                                               ELSE "tick_hostname", t, r.calls)
                                    EXCEPT !.live = curr, !.cached = hostname,
                                           !.outcome = outcome, !.conf = "True"]
             ELSE /\ TickGoto(t, "hostname")
                  /\ ev' = [Ev("tick_hostname_off", t, <<>>) EXCEPT !.conf = "False"]
                  /\ UNCHANGED <<hostname, protocol>>
    /\ UNCHANGED <<stopped, dhcp_id_list, server_thread, dhcp_warning_enabled,
                   last_archive, has_reset_firewall_rules, protocol_util,
                   enable_firewall, callerPc, callerRet, joinTarget, nruns,
                   bootLog, resets, lifeResets, joined>>
    /\ UNCHANGED <<ticked, lastFetch, current_endpoint>>

\* `all(self.osutil.check_pid_alive(pid) for pid in self.dhcp_id_list)`: the
\* answers check_pid_alive gives for the pids it is asked about, in list order;
\* all() asks no further pid after the first False
SomeDead(answers) == \E i \in 1..Len(answers) : answers[i] = FALSE

LivenessReports(list) ==
    {[i \in 1..k |-> i < k] : k \in 1..Len(list)}
        \cup {[i \in 1..Len(list) |-> TRUE]}

AllAlive_Inverted(answers) == \E i \in 1..Len(answers) : ~answers[i]

AllAlive(answers) == \A i \in 1..Len(answers) : answers[i]

IsRestart_ByLength(old, new) == Len(new) # 0 /\ Len(new) # Len(old)

\* `len(new_pid) != 0 and new_pid != self.dhcp_id_list`
IsRestart(old, new) == Len(new) # 0 /\ new # old

IsBootstrap_Never(list) == FALSE

\* `if len(self.dhcp_id_list) == 0`
IsBootstrap(list) == Len(list) = 0

\* what the scan of the stored list comes to, for every way check_pid_alive
\* can answer: `all` is the value of all(...), `dead` whether a pid was
\* reported dead
LivenessScans(list) ==
    {[all |-> AllAlive(a), dead |-> SomeDead(a)] : a \in LivenessReports(list)}

handle_dhclient_restart_StoresEveryRefetch(old, warn, allAlive, f) ==
    IF IsBootstrap(old)
       THEN [list |-> f.pid, warning |-> f.warning, fetchKind |-> f.kind,
             fetched |-> f.pid, log |-> f.log,
             calls |-> <<<<"get_dhcp_pid", "">>>>]
    ELSE IF allAlive
       THEN [list |-> old, warning |-> warn, fetchKind |-> "none",
             fetched |-> <<>>, log |-> "none",
             calls |-> <<>>]
    ELSE [list |-> f.pid,
          warning |-> f.warning, fetchKind |-> f.kind,
          fetched |-> f.pid, log |-> f.log,
          calls |-> <<<<"get_dhcp_pid", "">>>>
                    \o (IF IsRestart(old, f.pid) THEN <<<<"conf_routes", "">>>>
                                                 ELSE <<>>)]

\* handle_dhclient_restart() on stored list `old`, where all(...) gives
\* allAlive and get_dhcp_client_pid(), if called, gives f: the list it
\* leaves, the calls it makes
handle_dhclient_restart(old, warn, allAlive, f) ==
    IF IsBootstrap(old)
       THEN [list |-> f.pid, warning |-> f.warning, fetchKind |-> f.kind,
             fetched |-> f.pid, log |-> f.log,
             calls |-> <<<<"get_dhcp_pid", "">>>>]
    ELSE IF allAlive
       THEN [list |-> old, warning |-> warn, fetchKind |-> "none",
             fetched |-> <<>>, log |-> "none",
             calls |-> <<>>]
    ELSE [list |-> IF IsRestart(old, f.pid) THEN f.pid ELSE old,
          warning |-> f.warning, fetchKind |-> f.kind,
          fetched |-> f.pid, log |-> f.log,
          calls |-> <<<<"get_dhcp_pid", "">>>>
                    \o (IF IsRestart(old, f.pid) THEN <<<<"conf_routes", "">>>>
                                                 ELSE <<>>)]

\* whether the call reads osutil.get_dhcp_pid() at all (an unread outcome is
\* no input: one value stands for it)
FetchReached(old, allAlive) == IsBootstrap(old) \/ ~allAlive

tick_dhcp_FetchFailureFatal(t) ==
    /\ threadPc[t] = "dhcp"
    /\ \E a \in LivenessScans(dhcp_id_list), f \in DhcpFetches(dhcp_warning_enabled) :
          LET d == handle_dhclient_restart(dhcp_id_list, dhcp_warning_enabled, a.all, f)
          IN /\ FetchReached(dhcp_id_list, a.all) \/ f.kind = "fail"
             /\ dhcp_id_list' = (IF d.fetchKind = "fail" THEN dhcp_id_list ELSE d.list)
             /\ dhcp_warning_enabled' = d.warning
             /\ ev' = [Ev("tick_dhcp", t, d.calls)
                           EXCEPT !.prev = dhcp_id_list,
                                  !.warnPrev = dhcp_warning_enabled,
                                  !.someDead = a.dead,
                                  !.fetchKind = d.fetchKind, !.fetched = d.fetched,
                                  !.log = d.log, !.lastPrev = lastFetch]
             /\ lastFetch' = (IF d.fetchKind = "none" THEN lastFetch
                                                      ELSE FetchClass(d.fetched))
             /\ IF d.fetchKind = "fail"
                   THEN threadPc' = [threadPc EXCEPT ![t] = "failed"]
                   ELSE TickGoto(t, "dhcp")
    /\ UNCHANGED <<stopped, hostname, server_thread, last_archive,
                   has_reset_firewall_rules, protocol_util,
                   enable_firewall, callerPc, callerRet, joinTarget, nruns,
                   bootLog, resets, lifeResets, joined>>
    /\ UNCHANGED <<ticked, current_endpoint, protocol>>

\* self.handle_dhclient_restart()
tick_dhcp(t) ==
    /\ threadPc[t] = "dhcp"
    /\ \E a \in LivenessScans(dhcp_id_list), f \in DhcpFetches(dhcp_warning_enabled) :
          LET d == handle_dhclient_restart(dhcp_id_list, dhcp_warning_enabled, a.all, f)
          IN /\ FetchReached(dhcp_id_list, a.all) \/ f.kind = "fail"
             /\ dhcp_id_list' = d.list
             /\ dhcp_warning_enabled' = d.warning
             /\ ev' = [Ev("tick_dhcp", t, d.calls)
                           EXCEPT !.prev = dhcp_id_list,
                                  !.warnPrev = dhcp_warning_enabled,
                                  !.someDead = a.dead,
                                  !.fetchKind = d.fetchKind, !.fetched = d.fetched,
                                  !.log = d.log, !.lastPrev = lastFetch]
             /\ lastFetch' = (IF d.fetchKind = "none" THEN lastFetch
                                                      ELSE FetchClass(d.fetched))
    /\ TickGoto(t, "dhcp")
    /\ UNCHANGED <<stopped, hostname, server_thread, last_archive,
                   has_reset_firewall_rules, protocol_util,
                   enable_firewall, callerPc, callerRet, joinTarget, nruns,
                   bootLog, resets, lifeResets, joined>>
    /\ UNCHANGED <<ticked, current_endpoint, protocol>>

ArchiveGateClosed_Inclusive(last, now) ==
    last # <<>> /\ now <= last[1] + ARCHIVE_INTERVAL

\* the gate of archive_history(): `last_archive is not None and
\* utcnow() < last_archive + ARCHIVE_INTERVAL` (last: <<>> or <<T>>)
ArchiveGateClosed(last, now) == last # <<>> /\ now < last[1] + ARCHIVE_INTERVAL

\* archive_history(): the calls it makes
archive_history(last, now) ==
    IF ArchiveGateClosed(last, now) THEN <<>>
    ELSE <<<<"purge", "">>, <<"archive", "">>>>

tick_archive_Advancing(t) ==
    /\ threadPc[t] = "archive"
    /\ \E now \in Times :
          /\ ev' = [Ev("tick_archive", t, archive_history(last_archive, now))
                        EXCEPT !.now = <<now>>]
          /\ last_archive' = (IF ArchiveGateClosed(last_archive, now)
                                 THEN last_archive ELSE <<now>>)
    /\ TickGoto(t, "archive")
    /\ UNCHANGED <<stopped, hostname, dhcp_id_list, server_thread,
                   dhcp_warning_enabled, has_reset_firewall_rules, protocol_util,
                   enable_firewall, callerPc, callerRet, joinTarget, nruns,
                   bootLog, resets, lifeResets, joined>>
    /\ UNCHANGED <<ticked, lastFetch, current_endpoint, protocol>>

\* utcnow() is read only when last_archive is set
tick_archive(t) ==
    /\ threadPc[t] = "archive"
    /\ IF last_archive = <<>>
          THEN ev' = Ev("tick_archive", t, archive_history(last_archive, 0))
          ELSE \E now \in Times :
                  ev' = [Ev("tick_archive", t, archive_history(last_archive, now))
                             EXCEPT !.now = <<now>>]
    /\ TickGoto(t, "archive")
    /\ UNCHANGED <<fields, enable_firewall, callerPc, callerRet, joinTarget, nruns,
                   bootLog, resets, lifeResets, joined>>
    /\ UNCHANGED <<ticked, lastFetch, current_endpoint, protocol>>

tick_sleep_Interruptible(t) ==
    /\ threadPc[t] = "sleep"
    /\ threadPc' = [threadPc EXCEPT ![t] = IF stopped THEN "done" ELSE "check"]
    /\ ticked' = ticked \cup {t}
    /\ ev' = Ev("tick_sleep", t, <<>>)
    /\ UNCHANGED <<fields, enable_firewall, callerPc, callerRet, joinTarget, nruns,
                   bootLog, resets, lifeResets, joined>>
    /\ UNCHANGED <<lastFetch, current_endpoint, protocol>>

\* time.sleep(5)
tick_sleep(t) ==
    /\ threadPc[t] = "sleep"
    /\ TickGoto(t, "sleep")
    /\ ticked' = ticked \cup {t}
    /\ ev' = Ev("tick_sleep", t, <<>>)
    /\ UNCHANGED <<fields, enable_firewall, callerPc, callerRet, joinTarget, nruns,
                   bootLog, resets, lifeResets, joined>>
    /\ UNCHANGED <<lastFetch, current_endpoint, protocol>>

ThreadStep(t) ==
    \/ monitor_init(t) \/ monitor_test(t)
    \/ tick_firewall(t) \/ tick_scsi(t) \/ tick_hostname(t)
    \/ tick_dhcp(t) \/ tick_archive(t) \/ tick_sleep(t)

\* is_alive(): self.server_thread.is_alive(); server_thread is None until the
\* first start(), and None has no is_alive
is_alive ==
    IF server_thread = NoThread THEN "AttributeError"
    ELSE IF Alive(server_thread) THEN "True" ELSE "False"

\* --------------------------------------------------------- specifications
\* run() and stop() issued one after another by a single caller
Next ==
    \/ CallerStep(1)
    \/ \E t \in Threads : ThreadStep(t)

Spec == Init /\ [][Next]_vars

\* the loop thread is scheduled fairly and every call inside a tick returns;
\* a stop() in progress is not abandoned by its caller
Fairness ==
    /\ WF_vars(\E t \in Threads : ThreadStep(t))
    /\ WF_vars(stop_read(1) \/ stop_join(1))

FairSpec == Init /\ [][Next]_vars /\ Fairness

\* two callers (two threads of the agent) whose statements interleave:
\* caller 1 issues run() (which calls stop() itself when the flag is not
\* set), caller 2 issues stop(); every thread that is alive keeps being
\* scheduled
RunnerStep(c) ==
    \/ run(c)
    \/ stop_read(c) \/ stop_join(c)
    \/ run_clear(c) \/ run_routes(c) \/ run_hostname(c) \/ run_dhcp(c)
    \/ run_mds(c) \/ run_fw(c) \/ start(c)

StopperStep(c) == stop(c) \/ stop_read(c) \/ stop_join(c)

NextTwoCallers ==
    \/ RunnerStep(1)
    \/ StopperStep(2)
    \/ \E t \in Threads : ThreadStep(t)

FairnessTwoCallers ==
    /\ \A t \in Threads : WF_vars(ThreadStep(t))
    /\ \A c \in Callers : WF_vars(stop_read(c) \/ stop_join(c))

SpecTwoCallers == Init /\ [][NextTwoCallers]_vars /\ FairnessTwoCallers

\* Spec in an environment where the endpoint the protocol accessor answers
\* can change at any time
NextEndpoint ==
    \/ Next
    \/ EndpointChanges

SpecEndpoint == Init /\ [][NextEndpoint]_vars

\* archive_history() alone, on a running loop whose last_archive attribute
\* holds any value: unset, or a time T
InitArchive ==
    /\ stopped = FALSE
    /\ hostname = "host-a"
    /\ dhcp_id_list = <<1>>
    /\ server_thread = 1
    /\ dhcp_warning_enabled = TRUE
    /\ last_archive \in {<<>>} \cup {<<T>> : T \in 0..MaxLast}
    /\ enable_firewall \in BOOLEAN
    /\ has_reset_firewall_rules = enable_firewall
    /\ protocol_util = 1
    /\ callerPc = [c \in Callers |-> "idle"]
    /\ callerRet = [c \in Callers |-> "idle"]
    /\ joinTarget = [c \in Callers |-> NoThread]
    /\ threadPc = [t \in Threads |-> IF t = 1 THEN "archive" ELSE "unstarted"]
    /\ nruns = 1
    /\ bootLog = [c \in Callers |-> <<>>]
    /\ resets = (IF enable_firewall THEN 1 ELSE 0)
    /\ lifeResets = (IF enable_firewall THEN 1 ELSE 0)
    /\ joined = {}
    /\ ev = NoEv
    /\ current_endpoint = WIRESERVER
    /\ protocol = [t \in Threads |-> IF t = 1 THEN WIRESERVER ELSE None]
    /\ ticked = {}
    /\ lastFetch = "nonempty"

NextArchive == \E t \in Threads : tick_archive(t)

SpecArchive == InitArchive /\ [][NextArchive]_vars

\* ------------------------------------------------------------------ claims
AliveThreads == {t \in Threads : Alive(t)}

InStop(c) == callerPc[c] \in {"stop_read", "stop_join"}

InBootstrap(c) == callerPc[c] \in Range(RunOrder)

\* the current run() has finished its synchronous set_firewall_rules call
Reconciled == callerPc[1] = "run_start" \/ (nruns >= 1 /\ server_thread = nruns)

IsSorted(s) == \A i, j \in 1..Len(s) : i < j => s[i] <= s[j]

\* C1: with a single caller issuing run() and stop() one after another, at
\* most one monitor thread is alive in every state, and when run() spawns a
\* thread every thread started earlier has exited and has been joined by a
\* completed stop().
C1_AtMostOneLoop ==
    /\ Cardinality(AliveThreads) <= 1
    /\ ev.op = "start" =>
          \A t \in Threads \ {ev.thread} :
              threadPc[t] # "unstarted" => ~Alive(t) /\ t \in joined

\* run()'s own stop() has returned after joining a loop that was running when
\* run() was called (the loop exited because it read the flag that stop set)
C1_Witness ==
    /\ ev.op = "stop_return"
    /\ callerPc[1] = "run_clear"
    /\ ev.thread # NoThread
    /\ threadPc[ev.thread] = "done"

\* C2: when stop() returns, stopped is True and the thread it found in
\* server_thread is not alive; a thread a stop() has returned on is never
\* alive again; stop() waits only on an existing thread, and its join can
\* return at once when that thread has already exited.
C2_StopJoins ==
    /\ \A t \in joined : ~Alive(t)
    /\ ev.op = "stop_return" =>
          /\ stopped
          /\ ev.thread = server_thread
          /\ ev.thread # NoThread => ~Alive(ev.thread) /\ ev.thread \in joined
    /\ \A c \in {1} :
          callerPc[c] = "stop_join" =>
              /\ joinTarget[c] # NoThread
              /\ ~Alive(joinTarget[c]) => ENABLED stop_join(c)

\* a stop() called from the top level returned after the running loop exited
C2_Witness ==
    /\ ev.op = "stop_return"
    /\ callerPc[1] = "idle"
    /\ ev.thread # NoThread
    /\ threadPc[ev.thread] = "done"
    /\ stopped

\* C3: under fair scheduling every stop() in progress eventually returns,
\* and no thread begins a tick while a stop() has set the flag and has not
\* yet returned.
C3_StopTerminates ==
    /\ InStop(1) ~> ~InStop(1)
    /\ [][InStop(1) => ev'.op # "tick_begin"]_vars

\* stop() returned on a thread that had ended on an unhandled failure
C3_Witness ==
    /\ ev.op = "stop_return"
    /\ ev.thread # NoThread
    /\ threadPc[ev.thread] = "failed"

\* C4: is_alive() answers True exactly when a monitor thread is executing,
\* and False otherwise, in every reachable state.
C4_IsAliveReflectsLoop ==
    is_alive = (IF AliveThreads # {} THEN "True" ELSE "False")

\* C5 (as claimed): with the firewall enabled, every run() lifetime whose
\* bootstrap reconciler has finished has seen exactly one hard reset.
C5_ResetOncePerLifetime ==
    (enable_firewall /\ Reconciled) => lifeResets = 1

\* C5 (amended): with the firewall enabled, the hard reset executes exactly
\* once per handler object, in the bootstrap reconciler of the first run();
\* no tick and no later run() lifetime executes it again.
C5_ResetOncePerHandler ==
    enable_firewall =>
        /\ resets <= 1
        /\ has_reset_firewall_rules <=> (resets = 1)
        /\ Reconciled => resets = 1 /\ lifeResets = (IF nruns = 1 THEN 1 ELSE 0)

\* the second lifetime's loop has run its firewall step without a reset
C5_Witness ==
    /\ enable_firewall
    /\ nruns = 2
    /\ server_thread = 2
    /\ ev.op = "tick_firewall"
    /\ lifeResets = 0
    /\ resets = 1

\* C6: when run() spawns the loop thread, conf_routes, the hostname
\* snapshot, the pid snapshot, the legacy-rule removal (made exactly when
\* due) and the firewall reconciler have all finished, in that order; run()
\* has then returned while the new thread is alive; and no thread is alive
\* while a run() is still in its bootstrap.
C6_BootstrapBeforeLoop ==
    /\ ev.op = "start" =>
          /\ [i \in 1..Len(ev.boot) |-> ev.boot[i].step]
                = <<"conf_routes", "hostname", "dhcp", "mds", "firewall">>
          /\ \A i \in 1..Len(ev.boot) : ev.boot[i].done = ev.boot[i].needed
          /\ Alive(ev.thread)
          /\ callerPc[ev.who] = "idle"
    /\ InBootstrap(1) => AliveThreads = {}

\* a run() that removed the legacy rule has just spawned its thread
C6_Witness ==
    /\ ev.op = "start"
    /\ Len(ev.boot) = 5
    /\ ev.boot[4].done
    /\ threadPc[ev.thread] = "init"

\* C7: a DHCP tick on a non-empty stored list with a pid reported dead,
\* whose refetch gives a non-empty list different from the stored one, calls
\* conf_routes exactly once and stores the refetched list, which is sorted.
C7_RestartDetection ==
    (/\ ev.op = "tick_dhcp"
     /\ ev.prev # <<>>
     /\ ev.someDead
     /\ ev.fetchKind = "ok"
     /\ ev.fetched # <<>>
     /\ ev.fetched # ev.prev)
    => /\ Count(ev.calls, "conf_routes") = 1
       /\ dhcp_id_list = ev.fetched
       /\ IsSorted(dhcp_id_list)

\* stored [1,2], pid 1 dead, refetch [2,3]
C7_Witness ==
    /\ ev.op = "tick_dhcp"
    /\ ev.prev = <<1, 2>>
    /\ ev.someDead
    /\ ev.fetched = <<2, 3>>
    /\ dhcp_id_list = <<2, 3>>
    /\ Count(ev.calls, "conf_routes") = 1

\* C8: a DHCP tick on a non-empty stored list all of whose pids are reported
\* alive makes no call at all (no refetch, no conf_routes) and leaves the
\* stored list and dhcp_warning_enabled as they were.
C8_NoOpOnFullLiveness ==
    (/\ ev.op = "tick_dhcp"
     /\ ev.prev # <<>>
     /\ ~ev.someDead)
    => /\ ev.calls = <<>>
       /\ dhcp_id_list = ev.prev
       /\ dhcp_warning_enabled = ev.warnPrev

\* two stored pids, both alive, warning flag off
C8_Witness ==
    /\ ev.op = "tick_dhcp"
    /\ Len(ev.prev) = 2
    /\ ~ev.someDead
    /\ ev.calls = <<>>
    /\ dhcp_id_list = ev.prev
    /\ ~dhcp_warning_enabled

\* C9: a DHCP tick on an empty stored list refetches once, stores what the
\* fetch gave and never calls conf_routes.
C9_BootstrapReentry ==
    (ev.op = "tick_dhcp" /\ ev.prev = <<>>)
    => /\ Count(ev.calls, "get_dhcp_pid") = 1
       /\ Count(ev.calls, "conf_routes") = 0
       /\ dhcp_id_list = ev.fetched

\* an empty stored list and a refetch of two pids
C9_Witness ==
    /\ ev.op = "tick_dhcp"
    /\ ev.prev = <<>>
    /\ Len(dhcp_id_list) = 2
    /\ ev.fetchKind = "ok"
    /\ Count(ev.calls, "conf_routes") = 0

\* C10: an archive tick with last_archive = T and utcnow() earlier than
\* T + 24 hours calls neither purge nor archive; with last_archive unset, or
\* 24 hours or more elapsed, it calls purge and then archive, once each.
C10_ArchiveGating ==
    ev.op = "tick_archive" =>
        IF last_archive # <<>> /\ ev.now[1] - last_archive[1] < 24
           THEN ev.calls = <<>>
           ELSE ev.calls = <<<<"purge", "">>, <<"archive", "">>>>

\* exactly 24 hours after last_archive the gate is open
C10_Witness ==
    /\ ev.op = "tick_archive"
    /\ last_archive = <<1>>
    /\ ev.now = <<25>>
    /\ ev.calls = <<<<"purge", "">>, <<"archive", "">>>>

\* C11: a hostname tick whose set_hostname and publish_hostname calls return
\* (the failing ones are C14's): when the live hostname differs from the
\* cached one it calls set_hostname(live) and then publish_hostname(live),
\* once each and nothing else, and the cache becomes the live hostname; when
\* they are equal it makes no call and leaves the cache as it was.  Either
\* way the cache then equals the live hostname read in the tick.
C11_HostnameDetection ==
    (ev.op \in {"tick_hostname", "tick_hostname_raised"} /\ ev.outcome = "returns")
    => /\ ev.op = "tick_hostname"
       /\ IF ev.live # ev.cached
             THEN /\ ev.calls = <<<<"set_hostname", ev.live>>,
                                  <<"publish_hostname", ev.live>>>>
                  /\ hostname = ev.live
             ELSE /\ ev.calls = <<>>
                  /\ hostname = ev.cached
       /\ hostname = ev.live

\* cached "host-a", live "host-b": both calls made, cache now "host-b"
C11_Witness ==
    /\ ev.op = "tick_hostname"
    /\ ev.cached = "host-a"
    /\ ev.live = "host-b"
    /\ Count(ev.calls, "set_hostname") = 1
    /\ Count(ev.calls, "publish_hostname") = 1
    /\ hostname = "host-b"

\* C12 (as claimed): a DHCP tick on a non-empty stored list with a pid
\* reported dead stores the refetched list whatever it is, the empty list
\* included.
C12_StoresEveryRefetch ==
    (ev.op = "tick_dhcp" /\ ev.prev # <<>> /\ ev.someDead)
    => dhcp_id_list = ev.fetched

\* C12 (amended): such a tick stores the refetched list only when it is
\* non-empty and differs from the stored one; after an empty, failed or
\* equal refetch the stored list is what it was, hence still non-empty, and
\* the next tick does not take the empty-list path.
C12_StoresOnlyRestart ==
    (ev.op = "tick_dhcp" /\ ev.prev # <<>> /\ ev.someDead)
    => /\ dhcp_id_list = (IF ev.fetched # <<>> /\ ev.fetched # ev.prev
                             THEN ev.fetched ELSE ev.prev)
       /\ dhcp_id_list # <<>>
       /\ ~IsBootstrap(dhcp_id_list)

\* stored [1], pid 1 dead, the refetch returns an empty list: [1] is kept
C12_Witness ==
    /\ ev.op = "tick_dhcp"
    /\ ev.prev = <<1>>
    /\ ev.someDead
    /\ ev.fetchKind = "ok"
    /\ ev.fetched = <<>>
    /\ dhcp_id_list = <<1>>

\* C13: with run() called by one caller and stop() by another, their
\* statements interleaving, at most one monitor thread is alive in every
\* state and every stop() in progress eventually returns.
C13_TwoCallersOneLoop ==
    /\ [](Cardinality(AliveThreads) <= 1)
    /\ \A c \in Callers : InStop(c) ~> ~InStop(c)

\* C14: a hostname tick in which set_hostname or publish_hostname raises
\* makes no call after the failing one, leaves the cached hostname and the
\* stopped flag as they were and ends the thread, so that is_alive() is
\* False; the dead thread takes no further step (no DHCP, archive or sleep
\* step, no further tick), no step of a loop thread ever writes the flag, and
\* a loop runs again only once a run() has spawned a new thread.
C14_HostnameFailure ==
    /\ []((ev.op \in {"tick_hostname", "tick_hostname_raised"}
              /\ ev.outcome # "returns")
          => /\ ev.op = "tick_hostname_raised"
             /\ ev.calls = (IF ev.outcome = "set_hostname raises"
                               THEN <<<<"set_hostname", ev.live>>>>
                               ELSE <<<<"set_hostname", ev.live>>,
                                      <<"publish_hostname", ev.live>>>>)
             /\ hostname = ev.cached
             /\ threadPc[ev.who] = "failed"
             /\ server_thread = ev.who
             /\ is_alive = "False")
    /\ [][/\ \A t \in Threads : threadPc[t] = "failed" => threadPc'[t] = "failed"
          /\ ev'.op = "tick_hostname_raised" => stopped' = stopped
          /\ (\E t \in Threads : threadPc'[t] # threadPc[t] /\ threadPc[t] # "unstarted")
                => stopped' = stopped
          /\ (AliveThreads = {} /\ AliveThreads' # {}) => ev'.op = "start"]_vars

\* publish_hostname raised while stop() had not been called: the thread is
\* dead, the flag is still False and the cache still holds the old name
C14_Witness ==
    /\ ev.op = "tick_hostname_raised"
    /\ ev.outcome = "publish_hostname raises"
    /\ ev.cached = "host-a"
    /\ ev.live = "host-b"
    /\ hostname = "host-a"
    /\ ~stopped
    /\ is_alive = "False"

\* C15: no operation writes last_archive: it is unset in every reachable
\* state, so every archive step of every tick finds the gate open (without
\* reading the clock) and calls purge and then archive.
C15_LastArchiveNeverWritten ==
    /\ last_archive = <<>>
    /\ ev.op = "tick_archive" =>
          /\ ~ArchiveGateClosed(last_archive, 0)
          /\ ev.now = <<>>
          /\ ev.calls = <<<<"purge", "">>, <<"archive", "">>>>

\* the loop of the second run() has archived, last_archive still unset
C15_Witness ==
    /\ ev.op = "tick_archive"
    /\ nruns = 2
    /\ ev.who = 2
    /\ threadPc[1] = "done"
    /\ last_archive = <<>>
    /\ Count(ev.calls, "purge") = 1
    /\ Count(ev.calls, "archive") = 1

\* C16: a loop thread resolves its protocol once, before its first tick, to
\* the endpoint the accessor answers at that time; its `protocol` local never
\* changes afterwards, and every firewall step of the thread passes that
\* endpoint to set_firewall_rules and to the calls it makes, whatever the
\* accessor answers by then.
C16_EndpointResolvedOnce ==
    /\ [](ev.op = "tick_firewall" =>
            /\ ev.endpoint = protocol[ev.who]
            /\ \A i \in 1..Len(ev.calls) :
                  ev.calls[i][1] \in {"remove_firewall", "enable_firewall"}
                      => ev.calls[i][2] = protocol[ev.who])
    /\ [][\A t \in Threads :
            /\ (threadPc[t] = "init" /\ threadPc'[t] # "init")
                  => protocol'[t] = current_endpoint
            /\ (protocol[t] # None /\ protocol'[t] # None)
                  => protocol'[t] = protocol[t]
            /\ threadPc'[t] \in Range(TickOrder) => protocol'[t] # None]_vars

\* the accessor has moved to another endpoint; the tick still passes the
\* endpoint resolved when the loop started
C16_Witness ==
    /\ ev.op = "tick_firewall"
    /\ enable_firewall
    /\ ev.endpoint = WIRESERVER
    /\ current_endpoint # WIRESERVER
    /\ Count(ev.calls, "enable_firewall") = 1

\* a step that called get_dhcp_client_pid(): the bootstrap's, or a DHCP tick
\* that fetched
IsFetch == ev.op \in {"run_dhcp", "tick_dhcp"} /\ ev.fetchKind # "none"

\* C17: at every pid fetch, in run() or in a tick, a log line is emitted
\* exactly when the fetch gives no pid (empty, or failed) and the previous
\* fetch, if there was one, gave some; after the fetch dhcp_warning_enabled
\* is true exactly when it gave some pid.  Between fetches the flag tells
\* whether the last fetch, if any, was non-empty, so two logs are always
\* separated by a non-empty fetch.
C17_WarningRateLimit ==
    /\ dhcp_warning_enabled <=> (lastFetch # "empty")
    /\ IsFetch =>
          /\ ev.warnPrev <=> (ev.lastPrev # "empty")
          /\ (ev.log # "none") <=> (ev.fetched = <<>> /\ ev.lastPrev # "empty")
          /\ ev.log = "error" => ev.fetchKind = "fail"
          /\ ev.log = "warn" => ev.fetchKind = "ok"
          /\ dhcp_warning_enabled <=> (ev.fetched # <<>>)
          /\ lastFetch = FetchClass(ev.fetched)

\* a tick refetches after a pid died and gets nothing although the fetch
\* before gave pids: the warning is logged and the flag goes off
C17_Witness ==
    /\ ev.op = "tick_dhcp"
    /\ ev.fetchKind = "ok"
    /\ ev.fetched = <<>>
    /\ ev.lastPrev = "nonempty"
    /\ ev.log = "warn"
    /\ ~dhcp_warning_enabled

\* the step a thread takes from position pc, and where a step that returns
\* leaves the thread
StepAt(pc) ==
    CASE pc = "init" -> [ops |-> {"monitor_init"}, to |-> "check"]
      [] pc = "check" -> [ops |-> {"tick_begin"}, to |-> "fw"]
      [] pc = "fw" -> [ops |-> {"tick_firewall"}, to |-> "scsi"]
      [] pc = "scsi" -> [ops |-> {"tick_scsi"}, to |-> "hostname"]
      [] pc = "hostname" -> [ops |-> {"tick_hostname", "tick_hostname_off"},
                             to |-> "dhcp"]
      [] pc = "dhcp" -> [ops |-> {"tick_dhcp"}, to |-> "archive"]
      [] pc = "archive" -> [ops |-> {"tick_archive"}, to |-> "sleep"]
      [] pc = "sleep" -> [ops |-> {"tick_sleep"}, to |-> "check"]
      [] OTHER -> [ops |-> {}, to |-> pc]

\* C18: a loop thread moves through firewall, SCSI, hostname, DHCP, archive
\* and sleep in that order, one step at a time; the SCSI step calls
\* set_scsi_disks_timeout exactly when a timeout is configured and the
\* hostname step runs the detector exactly when monitoring is enabled; a
\* tick begins only from the loop test, which is reached only from the start
\* of monitor() or from the end of a sleep; the only other ways out of a
\* position are the loop exit at the test and a raise in the hostname step.
C18_TickOrdering ==
    [][\A t \in Threads :
          (threadPc'[t] # threadPc[t] /\ threadPc[t] # "unstarted") =>
              /\ ev'.who = t
              /\ \/ ev'.op \in StepAt(threadPc[t]).ops
                     /\ threadPc'[t] = StepAt(threadPc[t]).to
                 \/ threadPc[t] = "check" /\ ev'.op = "monitor_exit"
                     /\ threadPc'[t] = "done"
                 \/ threadPc[t] = "hostname" /\ ev'.op = "tick_hostname_raised"
                     /\ threadPc'[t] = "failed"
              /\ ev'.op = "tick_firewall" => ev'.calls[1][1] = "remove_rules_files"
              /\ ev'.op = "tick_scsi" =>
                    ev'.calls = (IF ev'.conf = None THEN <<>>
                                 ELSE <<<<"set_scsi_disks_timeout", ev'.conf>>>>)
              /\ ev'.op = "tick_hostname_off" => ev'.conf = "False" /\ ev'.calls = <<>>
              /\ ev'.op \in {"tick_hostname", "tick_hostname_raised"} =>
                    ev'.conf = "True" /\ ev'.live \in Hostnames
              /\ ev'.op = "tick_archive" => Count(ev'.calls, "archive") = 1]_vars

\* a thread is back at the loop test after the sleep that ends a tick
C18_Witness ==
    /\ ev.op = "tick_sleep"
    /\ threadPc[ev.who] = "check"
    /\ ev.who \in ticked
    /\ ~stopped

\* where each step of a tick leaves the thread
AfterStep ==
    [tick_firewall |-> "scsi", tick_scsi |-> "hostname", tick_hostname |-> "dhcp",
     tick_hostname_off |-> "dhcp", tick_hostname_raised |-> "failed",
     tick_dhcp |-> "archive", tick_archive |-> "sleep", tick_sleep |-> "check"]

\* C19: only the loop test reads the flag.  A thread inside a tick while
\* stopped is True can take its next step, and every step of a tick taken
\* with stopped True does what it does otherwise and leaves the thread at
\* the following step (the archive step before the sleep, the sleep before
\* the test).  The test starts a tick only when it reads False and leaves the
\* loop only when it reads True; a thread whose first test reads True exits
\* without having run any step of a tick, and an exited thread never steps.
C19_FlagReadAtTop ==
    /\ \A t \in Threads :
          /\ (stopped /\ threadPc[t] \in {"fw", "scsi", "hostname", "dhcp",
                                           "archive", "sleep"})
                => ENABLED ThreadStep(t)
          /\ threadPc[t] = "done" => ~ENABLED ThreadStep(t)
    /\ (stopped /\ ev.op \in DOMAIN AfterStep)
          => threadPc[ev.who] = AfterStep[ev.op]
    /\ ev.op = "tick_archive" => Count(ev.calls, "archive") = 1
    /\ ev.op = "tick_begin" => ~stopped /\ threadPc[ev.who] = "fw"
    /\ ev.op = "monitor_exit" => stopped /\ threadPc[ev.who] = "done"
    /\ (ev.op \in {"tick_begin", "monitor_exit"} /\ stopped /\ ~ev.ticked)
          => ev.op = "monitor_exit" /\ ev.who \notin ticked

\* stop() set the flag during a tick and waits in join(); the thread has
\* gone on through the archive step and has just finished the sleep
C19_Witness ==
    /\ ev.op = "tick_sleep"
    /\ stopped
    /\ callerPc[1] = "stop_join"
    /\ joinTarget[1] = ev.who
    /\ threadPc[ev.who] = "check"

\* the one thread alive is at the loop test
AtLoopTest == \E t \in Threads : AliveThreads = {t} /\ threadPc[t] = "check"

\* a step whose call of osutil.get_dhcp_pid() raised
FetchFailed(op) == ev.op = op /\ ev.fetchKind = "fail"

\* C20: when get_dhcp_pid raises, the fetch gives the empty list; in run()
\* the empty list is stored and run() is at its next statement; in a tick
\* the stored list is as it was, the thread is alive at the archive step
\* and, scheduled fairly, finishes the tick's sleep and is back at the loop
\* test; while the stored list is empty every DHCP step fetches again.
C20_FetchFailureNotFatal ==
    /\ [](FetchFailed("run_dhcp") =>
            /\ ev.fetched = <<>>
            /\ dhcp_id_list = <<>>
            /\ callerPc[ev.who] = "run_mds")
    /\ [](FetchFailed("tick_dhcp") =>
            /\ ev.fetched = <<>>
            /\ dhcp_id_list = ev.prev
            /\ threadPc[ev.who] = "archive"
            /\ Alive(ev.who))
    /\ []((ev.op = "tick_dhcp" /\ ev.prev = <<>>) => ev.fetchKind # "none")
    /\ FetchFailed("tick_dhcp") ~> (ev.op = "tick_sleep" /\ AtLoopTest)

\* the list is empty after an empty or failed fetch; a tick fetches again,
\* the fetch raises (no second log line), and the thread goes on
C20_Witness ==
    /\ FetchFailed("tick_dhcp")
    /\ ev.prev = <<>>
    /\ ev.lastPrev = "empty"
    /\ ev.log = "none"
    /\ dhcp_id_list = <<>>
    /\ threadPc[ev.who] = "archive"

====
